---- MODULE Spec2Model ----
(***************************************************************************)
(* Model of main.py: the fan-out / fan-in pipeline of parse_folder.        *)
(* One producer task per directory entry parses a document and puts its    *)
(* batch on an unbounded queue; one consumer task takes the batches and    *)
(* sends them to the async generator save_data_rows_to_csv, which owns the *)
(* output file.  Every await of the source is a point where the asyncio    *)
(* scheduler may run another task, so each action below is the code        *)
(* between two awaits of one task.                                         *)
(***************************************************************************)
EXTENDS Integers, Sequences, FiniteSets, TLC

\* ---- bounds of the model ------------------------------------------------
MaxDocs == 3        \* directory entries per run
MaxRecs == 2        \* records of one document
MaxItems == 4       \* items put on the queue when the sink is driven on its own
MaxPosts == 2       \* candidate nodes of one document tree
MaxText == 3        \* characters of a raw date or comment-count text
MaxSeg == 1         \* characters of one text or tail segment of a description

\* ---- values ---------------------------------------------------------------
\* the fixed first row written at main.py:24-26
HEADER == <<"FullName", "Job Title", "Company", "Email", "Description", "Date", "No. Comments", "Url">>

\* SENTINEL = object(): a queue item distinct from every batch
SENTINEL == [type |-> "sentinel", rows |-> <<>>]

NoFile == -1

\* the tasks of a run: parse_folder itself, the consumer task (main.py:207)
\* and one producer task per directory entry (main.py:200-205)
MainTask == <<"main", 0>>

ConsumerTask == <<"consumer", 0>>

ProducerTask(d) == <<"producer", d>>

\* what a directory entry is: a document of n records, or one whose parse
\* task raises (not a regular file, wrong extension, unparsable bytes)
DocKinds == {"ok", "notfile", "badext", "unparsable"}

Entries ==
    [kind : {"ok"}, n : 0..MaxRecs] \cup [kind : DocKinds \ {"ok"}, n : {0}]

\* the result_<i>.csv files that exist before the run, as sets of indices
Preexisting == {{}, {0}}

Folders == UNION {[1..k -> Entries] : k \in 0..MaxDocs}

VARIABLES
    isDir,       \* folder_path.is_dir()
    docs,        \* the directory entries, in iterdir order
    fsFiles,     \* indices i such that result_<i>.csv exists
    outFile,     \* index chosen by get_output_file, or NoFile
    pfPc,        \* position of parse_folder
    loopState,   \* the event loop of asyncio.run: "running" or "closed"
    prodPc,      \* position of each producer task
    consPc,      \* position of the consumer task
    queue,       \* data_write_queue
    genPc,       \* position of the generator save_data_rows_to_csv
    fileOpen,    \* the destination handle is open
    output,      \* rows written to the destination
    data_rows,   \* batch the generator is writing
    pos,         \* rows of data_rows already written
    sinkUser,    \* tasks currently inside an asend() of the generator
    putLog,      \* every item put on the queue, in put order
    takeLog,     \* every item the consumer took, in take order
    sinkRaised,  \* the exception the last asend() raised in the consumer
    fn           \* a call of one of the parsing functions: its argument and result

vars == <<isDir, docs, fsFiles, outFile, pfPc, loopState, prodPc, consPc, queue,
          genPc, fileOpen, output, data_rows, pos, sinkUser, putLog, takeLog,
          sinkRaised, fn>>

\* no parsing function is being called
NoCall == [op |-> "none", arg |-> <<>>, done |-> FALSE, res |-> <<>>]

Producers == DOMAIN docs

\* ---- pure helpers ---------------------------------------------------------
\* the list parse_html_file returns for document d: its records in document order
Batch(d) == [i \in 1..docs[d].n |-> <<d, i>>]

BatchItem(d) == [type |-> "batch", rows |-> Batch(d)]

\* get_output_file: the first index whose file does not exist
RECURSIVE get_output_file(_)
get_output_file(index) ==
    IF index \notin fsFiles THEN index ELSE get_output_file(index + 1)

RECURSIVE Concat(_)
Concat(items) ==
    IF items = <<>> THEN <<>> ELSE Head(items).rows \o Concat(Tail(items))

Init ==
    /\ isDir \in BOOLEAN
    /\ docs \in Folders
    /\ (~isDir => docs = <<>>)
    /\ fsFiles \in Preexisting
    /\ outFile = NoFile
    /\ pfPc = "start"
    /\ loopState = "running"
    /\ prodPc = [d \in DOMAIN docs |-> "created"]
    /\ consPc = "none"
    /\ queue = <<>>
    /\ genPc = "none"
    /\ fileOpen = FALSE
    /\ output = <<>>
    /\ data_rows = <<>>
    /\ pos = 0
    /\ sinkUser = {}
    /\ putLog = <<>>
    /\ takeLog = <<>>
    /\ sinkRaised = "none"
    /\ fn = NoCall

\* ---- parse_folder ----------------------------------------------------------
\* Validate without the is_dir() test of main.py:192
ValidateNoCheck ==
    /\ loopState = "running"
    /\ UNCHANGED <<sinkRaised, fn>>
    /\ pfPc = "start"
    /\ pfPc' = "validated"
    /\ UNCHANGED <<isDir, docs, fsFiles, outFile, loopState, prodPc, consPc, queue,
                   genPc, fileOpen, output, data_rows, pos, sinkUser, putLog, takeLog>>

\* main.py:192-193: the input path must be a directory
Validate ==
    /\ loopState = "running"
    /\ UNCHANGED <<sinkRaised, fn>>
    /\ pfPc = "start"
    /\ pfPc' = IF isDir THEN "validated" ELSE "raised"
    /\ UNCHANGED <<isDir, docs, fsFiles, outFile, loopState, prodPc, consPc, queue,
                   genPc, fileOpen, output, data_rows, pos, sinkUser, putLog, takeLog>>

\* main.py:194: output_filename = await get_output_file()
SelectOutput ==
    /\ loopState = "running"
    /\ UNCHANGED <<sinkRaised, fn>>
    /\ pfPc = "validated"
    /\ outFile' = get_output_file(0)
    /\ pfPc' = "selected"
    /\ UNCHANGED <<isDir, docs, fsFiles, loopState, prodPc, consPc, queue,
                   genPc, fileOpen, output, data_rows, pos, sinkUser, putLog, takeLog>>

\* main.py:196-198 and 21: the queue and the generator are created and the
\* first asend(None) starts the generator, which opens the destination with 'w'
OpenBegin ==
    /\ loopState = "running"
    /\ UNCHANGED <<sinkRaised, fn>>
    /\ pfPc = "selected"
    /\ queue' = <<>>
    /\ genPc' = "header"
    /\ fileOpen' = TRUE
    /\ fsFiles' = fsFiles \cup {outFile}
    /\ output' = <<>>
    /\ sinkUser' = sinkUser \cup {MainTask}
    /\ pfPc' = "opening"
    /\ UNCHANGED <<isDir, docs, outFile, loopState, prodPc, consPc,
                   data_rows, pos, putLog, takeLog>>

\* OpenHeader without the writerow of main.py:24-26
OpenHeaderSkip ==
    /\ loopState = "running"
    /\ UNCHANGED <<sinkRaised, fn>>
    /\ pfPc = "opening"
    /\ genPc = "header"
    /\ genPc' = "yield"
    /\ sinkUser' = sinkUser \ {MainTask}
    /\ pfPc' = "opened"
    /\ UNCHANGED <<isDir, docs, fsFiles, outFile, loopState, prodPc, consPc, queue,
                   fileOpen, output, data_rows, pos, putLog, takeLog>>

\* main.py:22-30: the header row is written and the generator stops at its
\* first yield, which ends the asend(None) of main.py:198
OpenHeader ==
    /\ loopState = "running"
    /\ UNCHANGED <<sinkRaised, fn>>
    /\ pfPc = "opening"
    /\ genPc = "header"
    /\ output' = Append(output, HEADER)
    /\ genPc' = "yield"
    /\ sinkUser' = sinkUser \ {MainTask}
    /\ pfPc' = "opened"
    /\ UNCHANGED <<isDir, docs, fsFiles, outFile, loopState, prodPc, consPc, queue,
                   fileOpen, data_rows, pos, putLog, takeLog>>

\* main.py:200-209: one producer coroutine per directory entry, the consumer
\* task is created, and gather schedules the producers
Launch ==
    /\ loopState = "running"
    /\ UNCHANGED <<sinkRaised, fn>>
    /\ pfPc = "opened"
    /\ prodPc' = [d \in Producers |-> "check"]
    /\ consPc' = "get"
    /\ pfPc' = "gather"
    /\ UNCHANGED <<isDir, docs, fsFiles, outFile, loopState, queue,
                   genPc, fileOpen, output, data_rows, pos, sinkUser, putLog, takeLog>>

\* GatherDone that does not wait for every producer before the sentinel
GatherDoneEarly ==
    /\ loopState = "running"
    /\ UNCHANGED <<sinkRaised, fn>>
    /\ pfPc = "gather"
    /\ \A d \in Producers : prodPc[d] # "failed"
    /\ queue' = Append(queue, SENTINEL)
    /\ putLog' = Append(putLog, SENTINEL)
    /\ pfPc' = "awaitConsumer"
    /\ UNCHANGED <<isDir, docs, fsFiles, outFile, loopState, prodPc, consPc,
                   genPc, fileOpen, output, data_rows, pos, sinkUser, takeLog>>

\* GatherDone without the put of main.py:210
GatherDoneNoSentinel ==
    /\ loopState = "running"
    /\ UNCHANGED <<sinkRaised, fn>>
    /\ pfPc = "gather"
    /\ \A d \in Producers : prodPc[d] = "done"
    /\ pfPc' = "awaitConsumer"
    /\ UNCHANGED <<isDir, docs, fsFiles, outFile, loopState, prodPc, consPc, queue,
                   genPc, fileOpen, output, data_rows, pos, sinkUser, putLog, takeLog>>

\* main.py:209-211: gather returns once every producer has finished; the
\* sentinel is put (the queue is unbounded, put does not wait) and
\* parse_folder awaits the consumer task
GatherDone ==
    /\ loopState = "running"
    /\ UNCHANGED <<sinkRaised, fn>>
    /\ pfPc = "gather"
    /\ \A d \in Producers : prodPc[d] = "done"
    /\ queue' = Append(queue, SENTINEL)
    /\ putLog' = Append(putLog, SENTINEL)
    /\ pfPc' = "awaitConsumer"
    /\ UNCHANGED <<isDir, docs, fsFiles, outFile, loopState, prodPc, consPc,
                   genPc, fileOpen, output, data_rows, pos, sinkUser, takeLog>>

\* main.py:209: gather is called without return_exceptions, so the first
\* exception of a producer is raised in parse_folder at once; the other
\* producers and the consumer are left running
GatherRaise ==
    /\ loopState = "running"
    /\ UNCHANGED <<sinkRaised, fn>>
    /\ pfPc = "gather"
    /\ \E d \in Producers : prodPc[d] = "failed"
    /\ pfPc' = "raised"
    /\ UNCHANGED <<isDir, docs, fsFiles, outFile, loopState, prodPc, consPc, queue,
                   genPc, fileOpen, output, data_rows, pos, sinkUser, putLog, takeLog>>

\* ConsumerJoined that does not await the consumer task
ConsumerJoinedNoWait ==
    /\ loopState = "running"
    /\ UNCHANGED <<sinkRaised, fn>>
    /\ pfPc = "awaitConsumer"
    /\ pfPc' = "returned"
    /\ UNCHANGED <<isDir, docs, fsFiles, outFile, loopState, prodPc, consPc, queue,
                   genPc, fileOpen, output, data_rows, pos, sinkUser, putLog, takeLog>>

\* main.py:211: await consumer_task returns when the consumer has returned
ConsumerJoined ==
    /\ loopState = "running"
    /\ UNCHANGED <<sinkRaised, fn>>
    /\ pfPc = "awaitConsumer"
    /\ consPc = "done"
    /\ pfPc' = "returned"
    /\ UNCHANGED <<isDir, docs, fsFiles, outFile, loopState, prodPc, consPc, queue,
                   genPc, fileOpen, output, data_rows, pos, sinkUser, putLog, takeLog>>

\* ---- producer tasks -------------------------------------------------------
\* main.py:148-151: parse_html_file checks is_file() and the suffix
ProducerCheck(d) ==
    /\ loopState = "running"
    /\ UNCHANGED <<sinkRaised, fn>>
    /\ prodPc[d] = "check"
    /\ prodPc' = [prodPc EXCEPT ![d] =
                    IF docs[d].kind \in {"notfile", "badext"} THEN "failed" ELSE "parse"]
    /\ UNCHANGED <<isDir, docs, fsFiles, outFile, pfPc, loopState, consPc, queue,
                   genPc, fileOpen, output, data_rows, pos, sinkUser, putLog, takeLog>>

\* ProducerParsePut that sends the batch to the generator itself instead of
\* putting it on the queue
ProducerParseSend(d) ==
    /\ loopState = "running"
    /\ UNCHANGED <<sinkRaised, fn>>
    /\ prodPc[d] = "parse"
    /\ IF docs[d].kind = "unparsable"
       THEN /\ prodPc' = [prodPc EXCEPT ![d] = "failed"]
            /\ UNCHANGED <<sinkUser, output>>
       ELSE /\ prodPc' = [prodPc EXCEPT ![d] = "done"]
            /\ sinkUser' = sinkUser \cup {ProducerTask(d)}
            /\ output' = output \o Batch(d)
    /\ UNCHANGED <<isDir, docs, fsFiles, outFile, pfPc, loopState, consPc, queue,
                   genPc, fileOpen, data_rows, pos, putLog, takeLog>>

\* ProducerParsePut on a queue that hands out the newest item first
ProducerParsePutFront(d) ==
    /\ loopState = "running"
    /\ UNCHANGED <<sinkRaised, fn>>
    /\ prodPc[d] = "parse"
    /\ IF docs[d].kind = "unparsable"
       THEN /\ prodPc' = [prodPc EXCEPT ![d] = "failed"]
            /\ UNCHANGED <<queue, putLog>>
       ELSE /\ prodPc' = [prodPc EXCEPT ![d] = "done"]
            /\ queue' = <<BatchItem(d)>> \o queue
            /\ putLog' = Append(putLog, BatchItem(d))
    /\ UNCHANGED <<isDir, docs, fsFiles, outFile, pfPc, loopState, consPc,
                   genPc, fileOpen, output, data_rows, pos, sinkUser, takeLog>>

\* ProducerParsePut on a queue of capacity 1: put waits while the queue is full
ProducerParsePutBounded(d) ==
    /\ loopState = "running"
    /\ UNCHANGED <<sinkRaised, fn>>
    /\ prodPc[d] = "parse"
    /\ IF docs[d].kind = "unparsable"
       THEN /\ prodPc' = [prodPc EXCEPT ![d] = "failed"]
            /\ UNCHANGED <<queue, putLog>>
       ELSE /\ queue = <<>>
            /\ prodPc' = [prodPc EXCEPT ![d] = "done"]
            /\ queue' = Append(queue, BatchItem(d))
            /\ putLog' = Append(putLog, BatchItem(d))
    /\ UNCHANGED <<isDir, docs, fsFiles, outFile, pfPc, loopState, consPc,
                   genPc, fileOpen, output, data_rows, pos, sinkUser, takeLog>>

\* main.py:153-155 and 177-179: the tree is built and parsed; the batch is
\* put on the queue in the same step (an unbounded queue never makes put wait)
ProducerParsePut(d) ==
    /\ loopState = "running"
    /\ UNCHANGED <<sinkRaised, fn>>
    /\ prodPc[d] = "parse"
    /\ IF docs[d].kind = "unparsable"
       THEN /\ prodPc' = [prodPc EXCEPT ![d] = "failed"]
            /\ UNCHANGED <<queue, putLog>>
       ELSE /\ prodPc' = [prodPc EXCEPT ![d] = "done"]
            /\ queue' = Append(queue, BatchItem(d))
            /\ putLog' = Append(putLog, BatchItem(d))
    /\ UNCHANGED <<isDir, docs, fsFiles, outFile, pfPc, loopState, consPc,
                   genPc, fileOpen, output, data_rows, pos, sinkUser, takeLog>>

\* ---- consumer task and generator ------------------------------------------
\* main.py:163-173 and 30-36: the consumer takes the next item.  On the
\* sentinel it sends None, the generator leaves its loop and starts closing
\* the file.  On a batch it sends the batch; an empty batch brings the
\* generator straight back to its yield.
ConsumerGet ==
    /\ loopState = "running"
    /\ UNCHANGED <<sinkRaised, fn>>
    /\ consPc = "get"
    /\ queue # <<>>
    /\ genPc = "yield"
    /\ LET data == Head(queue) IN
         /\ queue' = Tail(queue)
         /\ takeLog' = Append(takeLog, data)
         /\ IF data = SENTINEL
            THEN /\ consPc' = "close"
                 /\ genPc' = "exit"
                 /\ sinkUser' = sinkUser \cup {ConsumerTask}
                 /\ UNCHANGED <<data_rows, pos>>
            ELSE IF data.rows = <<>>
            THEN /\ data_rows' = data.rows
                 /\ pos' = 0
                 /\ UNCHANGED <<consPc, genPc, sinkUser>>
            ELSE /\ data_rows' = data.rows
                 /\ pos' = 0
                 /\ consPc' = "send"
                 /\ genPc' = "rows"
                 /\ sinkUser' = sinkUser \cup {ConsumerTask}
    /\ UNCHANGED <<isDir, docs, fsFiles, outFile, pfPc, loopState, prodPc,
                   fileOpen, output, putLog>>

\* ConsumerWriteRow whose loop over the batch stops after the first row
ConsumerWriteRowOnce ==
    /\ loopState = "running"
    /\ UNCHANGED <<sinkRaised, fn>>
    /\ consPc = "send"
    /\ genPc = "rows"
    /\ pos < Len(data_rows)
    /\ output' = Append(output, data_rows[pos + 1])
    /\ pos' = pos + 1
    /\ consPc' = "get"
    /\ genPc' = "yield"
    /\ sinkUser' = sinkUser \ {ConsumerTask}
    /\ UNCHANGED <<isDir, docs, fsFiles, outFile, pfPc, loopState, prodPc, queue,
                   fileOpen, data_rows, putLog, takeLog>>

\* main.py:36-37: one row of the batch is written; after the last row the
\* generator is back at its yield and the consumer at queue.get()
ConsumerWriteRow ==
    /\ loopState = "running"
    /\ UNCHANGED <<sinkRaised, fn>>
    /\ consPc = "send"
    /\ genPc = "rows"
    /\ pos < Len(data_rows)
    /\ output' = Append(output, data_rows[pos + 1])
    /\ pos' = pos + 1
    /\ IF pos + 1 = Len(data_rows)
       THEN /\ consPc' = "get"
            /\ genPc' = "yield"
            /\ sinkUser' = sinkUser \ {ConsumerTask}
       ELSE UNCHANGED <<consPc, genPc, sinkUser>>
    /\ UNCHANGED <<isDir, docs, fsFiles, outFile, pfPc, loopState, prodPc, queue,
                   fileOpen, data_rows, putLog, takeLog>>

\* ConsumerClose without the "finally: return" of main.py:170-171: the
\* RuntimeError leaves the consumer
ConsumerCloseNoFinally ==
    /\ loopState = "running"
    /\ sinkRaised' = "RuntimeError"
    /\ UNCHANGED fn
    /\ consPc = "close"
    /\ genPc = "exit"
    /\ fileOpen' = FALSE
    /\ genPc' = "finished"
    /\ consPc' = "failed"
    /\ sinkUser' = sinkUser \ {ConsumerTask}
    /\ UNCHANGED <<isDir, docs, fsFiles, outFile, pfPc, loopState, prodPc, queue,
                   output, data_rows, pos, putLog, takeLog>>

\* main.py:21, 38 and 166-171: the file is closed; the generator's
\* "raise StopAsyncIteration" reaches the consumer as a RuntimeError, which
\* the "return" of the finally clause discards
ConsumerClose ==
    /\ loopState = "running"
    /\ sinkRaised' = "RuntimeError"
    /\ UNCHANGED fn
    /\ consPc = "close"
    /\ genPc = "exit"
    /\ fileOpen' = FALSE
    /\ genPc' = "finished"
    /\ consPc' = "done"
    /\ sinkUser' = sinkUser \ {ConsumerTask}
    /\ UNCHANGED <<isDir, docs, fsFiles, outFile, pfPc, loopState, prodPc, queue,
                   output, data_rows, pos, putLog, takeLog>>

\* ---- the event loop -------------------------------------------------------
\* main.py:214-217: when parse_folder has returned or raised, asyncio.run
\* cancels the tasks that are still pending and closes the generators that
\* have not finished, which releases the destination
RunShutdown ==
    /\ loopState = "running"
    /\ UNCHANGED <<sinkRaised, fn>>
    /\ pfPc \in {"returned", "raised"}
    /\ loopState' = "closed"
    /\ prodPc' = [d \in Producers |->
                    IF prodPc[d] \in {"check", "parse"} THEN "cancelled" ELSE prodPc[d]]
    /\ consPc' = IF consPc \in {"get", "send", "close"} THEN "cancelled" ELSE consPc
    /\ genPc' = IF genPc = "none" THEN "none" ELSE "finished"
    /\ fileOpen' = FALSE
    /\ sinkUser' = {}
    /\ UNCHANGED <<isDir, docs, fsFiles, outFile, pfPc, queue,
                   output, data_rows, pos, putLog, takeLog>>

Next ==
    \/ Validate
    \/ SelectOutput
    \/ OpenBegin
    \/ OpenHeader
    \/ Launch
    \/ GatherDone
    \/ GatherRaise
    \/ ConsumerJoined
    \/ \E d \in Producers : ProducerCheck(d)
    \/ \E d \in Producers : ProducerParsePut(d)
    \/ ConsumerGet
    \/ ConsumerWriteRow
    \/ ConsumerClose
    \/ RunShutdown

Spec == Init /\ [][Next]_vars

\* the scheduler runs every task that is ready: each task whose next step is
\* enabled eventually takes it
ProducerStep(d) == d \in Producers /\ (ProducerCheck(d) \/ ProducerParsePut(d))

ConsumerStep == ConsumerGet \/ ConsumerWriteRow \/ ConsumerClose

MainStep ==
    \/ Validate
    \/ SelectOutput
    \/ OpenBegin
    \/ OpenHeader
    \/ Launch
    \/ GatherDone
    \/ GatherRaise
    \/ ConsumerJoined

\* the runs the progress property is about: every start state of Init whose
\* failing documents, if any, fail while their bytes are parsed
FairInit ==
    /\ Init
    /\ fsFiles = {}
    /\ \A d \in DOMAIN docs : docs[d].kind \in {"ok", "unparsable"}

FairSpec ==
    /\ FairInit
    /\ [][Next]_vars
    /\ WF_vars(MainStep)
    /\ WF_vars(ConsumerStep)
    /\ \A d \in 1..MaxDocs : WF_vars(ProducerStep(d))

\* ---- the pipeline with a destination that can fail ------------------------
\* main.py:36-37 and 173: writer.writerow raises (the destination cannot be
\* written).  The exception leaves the "async with", which closes the file,
\* ends the generator and leaves the consumer through the asend of line 173,
\* which nothing guards: the consumer task ends with the exception.
ConsumerWriteFail ==
    /\ loopState = "running"
    /\ UNCHANGED fn
    /\ consPc = "send"
    /\ genPc = "rows"
    /\ pos < Len(data_rows)
    /\ sinkRaised' = "OSError"
    /\ fileOpen' = FALSE
    /\ genPc' = "finished"
    /\ consPc' = "failed"
    /\ sinkUser' = sinkUser \ {ConsumerTask}
    /\ UNCHANGED <<isDir, docs, fsFiles, outFile, pfPc, loopState, prodPc, queue,
                   output, data_rows, pos, putLog, takeLog>>

\* main.py:21 and 166-171: closing the file raises.  Line 38 is not reached,
\* the asend of line 167 raises the error of the close, the except clause
\* does not match it and the "return" of the finally clause discards it.
ConsumerCloseFail ==
    /\ loopState = "running"
    /\ UNCHANGED fn
    /\ consPc = "close"
    /\ genPc = "exit"
    /\ sinkRaised' = "OSError"
    /\ fileOpen' = FALSE
    /\ genPc' = "finished"
    /\ consPc' = "done"
    /\ sinkUser' = sinkUser \ {ConsumerTask}
    /\ UNCHANGED <<isDir, docs, fsFiles, outFile, pfPc, loopState, prodPc, queue,
                   output, data_rows, pos, putLog, takeLog>>

\* main.py:211: awaiting a task that ended with an exception raises it
ConsumerJoinedRaise ==
    /\ loopState = "running"
    /\ UNCHANGED <<sinkRaised, fn>>
    /\ pfPc = "awaitConsumer"
    /\ consPc = "failed"
    /\ pfPc' = "raised"
    /\ UNCHANGED <<isDir, docs, fsFiles, outFile, loopState, prodPc, consPc, queue,
                   genPc, fileOpen, output, data_rows, pos, sinkUser, putLog, takeLog>>

FaultNext ==
    \/ Validate
    \/ SelectOutput
    \/ OpenBegin
    \/ OpenHeader
    \/ Launch
    \/ GatherDone
    \/ ConsumerJoined
    \/ ConsumerJoinedRaise
    \/ \E d \in Producers : ProducerCheck(d)
    \/ \E d \in Producers : ProducerParsePut(d)
    \/ ConsumerGet
    \/ ConsumerWriteRow
    \/ ConsumerWriteFail
    \/ ConsumerClose
    \/ ConsumerCloseFail
    \/ RunShutdown

\* the runs in which every document parses, so that gather does not raise
\* and the only errors are those of the destination
FaultInit ==
    /\ FairInit
    /\ \A d \in DOMAIN docs : docs[d].kind = "ok"

\* the tasks are scheduled fairly; that a write or a close fails is up to
\* the destination
FaultSpec ==
    /\ FaultInit
    /\ [][FaultNext]_vars
    /\ WF_vars(MainStep \/ ConsumerJoinedRaise)
    /\ WF_vars(ConsumerStep)
    /\ \A d \in 1..MaxDocs : WF_vars(ProducerStep(d))

\* ---- the sink driven on its own -------------------------------------------
\* The generator and the consumer coroutine driven by a caller that puts
\* what it likes on the queue and runs send_data_to_csv_consumer as often as
\* it likes on the same generator: this reaches what parse_folder never
\* does, an asend() to a generator that has already finished.

\* the state after main.py:196-198: queue created, generator at its first yield
SinkInit ==
    /\ isDir = TRUE
    /\ docs = <<>>
    /\ fsFiles = {0}
    /\ outFile = 0
    /\ pfPc = "opened"
    /\ loopState = "running"
    /\ prodPc = <<>>
    /\ consPc = "none"
    /\ queue = <<>>
    /\ genPc = "yield"
    /\ fileOpen = TRUE
    /\ output = <<HEADER>>
    /\ data_rows = <<>>
    /\ pos = 0
    /\ sinkUser = {}
    /\ putLog = <<>>
    /\ takeLog = <<>>
    /\ sinkRaised = "none"
    /\ fn = NoCall

\* queue.put of a batch of n records, or of the sentinel
SinkPut ==
    /\ Len(putLog) < MaxItems
    /\ \E item \in {SENTINEL} \cup
                   {[type |-> "batch", rows |-> [i \in 1..n |-> <<Len(putLog) + 1, i>>]] :
                        n \in 0..MaxRecs} :
         /\ queue' = Append(queue, item)
         /\ putLog' = Append(putLog, item)
    /\ UNCHANGED <<isDir, docs, fsFiles, outFile, pfPc, loopState, prodPc, consPc,
                   genPc, fileOpen, output, data_rows, pos, sinkUser, takeLog,
                   sinkRaised, fn>>

\* main.py:161-163: send_data_to_csv_consumer is called (again) with the
\* same queue and generator
ConsumerStart ==
    /\ consPc \in {"none", "done"}
    /\ consPc' = "get"
    /\ UNCHANGED <<isDir, docs, fsFiles, outFile, pfPc, loopState, prodPc, queue,
                   genPc, fileOpen, output, data_rows, pos, sinkUser, putLog, takeLog,
                   sinkRaised, fn>>

\* ConsumerGetFinished without the try statement of main.py:166-171
ConsumerGetFinishedRaise ==
    /\ consPc = "get"
    /\ queue # <<>>
    /\ genPc = "finished"
    /\ queue' = Tail(queue)
    /\ takeLog' = Append(takeLog, Head(queue))
    /\ sinkRaised' = "StopAsyncIteration"
    /\ consPc' = "failed"
    /\ UNCHANGED <<isDir, docs, fsFiles, outFile, pfPc, loopState, prodPc,
                   genPc, fileOpen, output, data_rows, pos, sinkUser, putLog, fn>>

\* main.py:163-173 on a generator that has finished: asend() raises
\* StopAsyncIteration without running any code of the generator.  For the
\* sentinel the except clause of line 168 catches it and the consumer
\* returns; for a batch it leaves the consumer through line 173.
ConsumerGetFinished ==
    /\ consPc = "get"
    /\ queue # <<>>
    /\ genPc = "finished"
    /\ queue' = Tail(queue)
    /\ takeLog' = Append(takeLog, Head(queue))
    /\ sinkRaised' = "StopAsyncIteration"
    /\ consPc' = IF Head(queue) = SENTINEL THEN "done" ELSE "failed"
    /\ UNCHANGED <<isDir, docs, fsFiles, outFile, pfPc, loopState, prodPc,
                   genPc, fileOpen, output, data_rows, pos, sinkUser, putLog, fn>>

SinkNext ==
    \/ SinkPut
    \/ ConsumerStart
    \/ ConsumerGet
    \/ ConsumerWriteRow
    \/ ConsumerClose
    \/ ConsumerGetFinished

SinkSpec == SinkInit /\ [][SinkNext]_vars

\* ---- the parsing functions --------------------------------------------------
\* A string is a sequence of one-character strings.  An optional value (a
\* field that may be None, an xpath result that may be empty) is <<>> when
\* absent and <<v>> when present.
Null == <<>>

Some(v) == <<v>>

\* the character classes the two regular expressions of main.py use
IsDigit(c) == c \in {"0", "1", "3"}

IsDigit19(c) == c \in {"1", "3"}

IsLetter(c) == c \in {"a", "b", "d"}

\* \w: letters, digits and the underscore
IsWord(c) == IsDigit(c) \/ IsLetter(c) \/ c = "_"

IsSpace(c) == c = " "

\* str.strip(): leading and trailing whitespace removed
RECURSIVE LStrip(_)
LStrip(s) == IF s # <<>> /\ IsSpace(Head(s)) THEN LStrip(Tail(s)) ELSE s

RECURSIVE RStrip(_)
RStrip(s) ==
    IF s # <<>> /\ IsSpace(s[Len(s)]) THEN RStrip(SubSeq(s, 1, Len(s) - 1)) ELSE s

Strip(s) == RStrip(LStrip(s))

\* main.py:47-53: an element is [text, kids], a kid is [el, tail]; a text or
\* tail that lxml reports as None is the empty string here, which the code
\* treats alike ("element.text or ''", "if child.tail")
RECURSIVE get_inner_text(_)
RECURSIVE InnerTextLoop(_, _)
\* InnerTextLoop without lines 51-52: the tail of a child is dropped
RECURSIVE InnerTextLoopNoTail(_, _)
InnerTextLoopNoTail(kids, text) ==
    IF kids = <<>>
    THEN text
    ELSE InnerTextLoopNoTail(Tail(kids), text \o <<" ">> \o get_inner_text(Head(kids).el))

InnerTextLoop(kids, text) ==
    IF kids = <<>>
    THEN text
    ELSE LET child == Head(kids)
             t1 == text \o <<" ">> \o get_inner_text(child.el)
             t2 == IF child.tail # <<>> THEN t1 \o <<" ">> \o child.tail ELSE t1
         IN  InnerTextLoop(Tail(kids), t2)

get_inner_text(element) == Strip(InnerTextLoop(element.kids, element.text))

\* main.py:56-70: the pattern comes from email_regex.txt, which the
\* repository does not hold; the model takes the pattern "@", so that a
\* description has an email exactly when it holds that character
extract_email(text) ==
    IF \E i \in 1..Len(text) : text[i] = "@" THEN Some(<<"@">>) ELSE Null

\* re.search(r"[1-9]\d?\w\w?", s) tried at position i: the length of the
\* match, 0 when there is none.  \d? and \w? are greedy, and \d? gives its
\* digit back when the \w after it would otherwise fail.
DateMatchAt(s, i) ==
    LET D(j) == j <= Len(s) /\ IsDigit(s[j])
        W(j) == j <= Len(s) /\ IsWord(s[j])
    IN  IF ~(i <= Len(s) /\ IsDigit19(s[i])) THEN 0
        ELSE IF D(i + 1) /\ W(i + 2) THEN (IF W(i + 3) THEN 4 ELSE 3)
        ELSE IF W(i + 1) THEN (IF W(i + 2) THEN 3 ELSE 2)
        ELSE 0

\* main.py:101: the leftmost match, or Null when re.search returns None
DateSearch(s) ==
    LET starts == {i \in 1..Len(s) : DateMatchAt(s, i) > 0}
    IN  IF starts = {} THEN Null
        ELSE LET i == CHOOSE k \in starts : \A j \in starts : k <= j
             IN  Some(SubSeq(s, i, i + DateMatchAt(s, i) - 1))

\* re.search(r'[\d,]+', s) from position i on: the end of the run that
\* starts at i
RECURSIVE RunEnd(_, _)
RunEnd(s, i) ==
    IF i + 1 <= Len(s) /\ (IsDigit(s[i + 1]) \/ s[i + 1] = ",")
    THEN RunEnd(s, i + 1) ELSE i

RECURSIVE CountSearchFrom(_, _)
CountSearchFrom(s, i) ==
    IF i > Len(s) THEN Null
    ELSE IF IsDigit(s[i]) \/ s[i] = "," THEN Some(SubSeq(s, i, RunEnd(s, i)))
    ELSE CountSearchFrom(s, i + 1)

\* CountSearch for the pattern \d+, which stops at a comma
RECURSIVE DigitRunEnd(_, _)
DigitRunEnd(s, i) ==
    IF i + 1 <= Len(s) /\ IsDigit(s[i + 1]) THEN DigitRunEnd(s, i + 1) ELSE i

RECURSIVE DigitSearchFrom(_, _)
DigitSearchFrom(s, i) ==
    IF i > Len(s) THEN Null
    ELSE IF IsDigit(s[i]) THEN Some(SubSeq(s, i, DigitRunEnd(s, i)))
    ELSE DigitSearchFrom(s, i + 1)

CountSearchDigits(s) == DigitSearchFrom(s, 1)

CountSearch(s) == CountSearchFrom(s, 1)

\* str.replace(',', '')
NotComma(c) == c # ","

RemoveCommas(s) == SelectSeq(s, NotComma)

DigitValue(c) == CASE c = "0" -> 0 [] c = "1" -> 1 [] c = "3" -> 3

\* int(s) for a string of digits
RECURSIVE IntOf(_)
IntOf(s) ==
    IF s = <<>> THEN 0
    ELSE 10 * IntOf(SubSeq(s, 1, Len(s) - 1)) + DigitValue(s[Len(s)])

\* main.py:41-44: the nodes of the tree that the xpath selects, in document order
IsPost(node) == node.post

get_posts_trees(tree) == SelectSeq(tree, IsPost)

\* main.py:86-134: what the loop body does with one post: "skip" (continue),
\* "raise" with the exception, or "row" with the DataRow
ParsePost(post) ==
    IF post.name = Null THEN [kind |-> "skip", exc |-> "none", row |-> <<>>]
    ELSE IF post.date # Null /\ DateSearch(post.date[1]) = Null
    THEN [kind |-> "raise", exc |-> "AttributeError", row |-> <<>>]
    ELSE IF post.url = Null
    THEN [kind |-> "raise", exc |-> "IndexError", row |-> <<>>]
    ELSE IF post.comments # Null /\ CountSearch(post.comments[1]) = Null
    THEN [kind |-> "raise", exc |-> "AttributeError", row |-> <<>>]
    ELSE IF post.comments # Null /\ RemoveCommas(CountSearch(post.comments[1])[1]) = <<>>
    THEN [kind |-> "raise", exc |-> "ValueError", row |-> <<>>]
    ELSE LET description ==
                 IF post.desc = Null THEN Null ELSE Some(get_inner_text(post.desc[1]))
         IN  [kind |-> "row", exc |-> "none", row |-> <<
                 [full_name |-> post.name,
                  job_title |-> post.job,
                  company |-> Null,
                  email |-> IF description # Null THEN extract_email(description[1]) ELSE Null,
                  description |-> description,
                  date |-> IF post.date = Null THEN Null ELSE DateSearch(post.date[1]),
                  number_of_comments |->
                      IF post.comments = Null THEN Null
                      ELSE Some(IntOf(RemoveCommas(CountSearch(post.comments[1])[1]))),
                  url |-> post.url]>>]

\* main.py:83-136: the rows of the posts in order; the first exception ends
\* the call and no list is returned
RECURSIVE SoupLoop(_, _)
SoupLoop(posts, rows) ==
    IF posts = <<>> THEN [exc |-> "none", val |-> rows]
    ELSE LET r == ParsePost(Head(posts))
         IN  IF r.kind = "raise" THEN [exc |-> r.exc, val |-> <<>>]
             ELSE SoupLoop(Tail(posts), rows \o r.row)

parse_html_soup(tree) == SoupLoop(get_posts_trees(tree), <<>>)

\* ---- calls of the parsing functions ----------------------------------------
\* while a parsing function is called on its own, no run of parse_folder is
\* under way
PipelineIdle ==
    /\ isDir = TRUE
    /\ docs = <<>>
    /\ fsFiles = {}
    /\ outFile = NoFile
    /\ pfPc = "start"
    /\ loopState = "closed"
    /\ prodPc = <<>>
    /\ consPc = "none"
    /\ queue = <<>>
    /\ genPc = "none"
    /\ fileOpen = FALSE
    /\ output = <<>>
    /\ data_rows = <<>>
    /\ pos = 0
    /\ sinkUser = {}
    /\ putLog = <<>>
    /\ takeLog = <<>>
    /\ sinkRaised = "none"

pipelineVars ==
    <<isDir, docs, fsFiles, outFile, pfPc, loopState, prodPc, consPc, queue,
      genPc, fileOpen, output, data_rows, pos, sinkUser, putLog, takeLog, sinkRaised>>

Call(op, arg) == [op |-> op, arg |-> arg, done |-> FALSE, res |-> <<>>]

Leaf(text) == [text |-> text, kids |-> <<>>]

\* the candidate nodes of a document: whether the xpath of get_posts_trees
\* selects the node, and what each xpath of parse_html_soup finds in it
PostNodes ==
    [post : BOOLEAN,
     name : {Null, Some(<<"a">>), Some(<<"b">>)},
     job : {Null, Some(<<"d">>)},
     date : {Null, Some(<<"3", "d">>)},
     desc : {Null, Some(Leaf(<<"a", "@">>))},
     url : {Null, Some(<<"u">>)},
     comments : {Null, Some(<<"1", ",", "3">>)}]

\* the document trees of at most n candidate nodes
SoupTrees(n) == UNION {[1..k -> PostNodes] : k \in 0..n}

SoupInit ==
    /\ PipelineIdle
    /\ fn \in {Call("parse_html_soup", tree) : tree \in SoupTrees(MaxPosts)}

\* main.py:154: result = parse_html_soup(tree)
CallParseSoup ==
    /\ fn.op = "parse_html_soup"
    /\ ~fn.done
    /\ fn' = [fn EXCEPT !.done = TRUE, !.res = parse_html_soup(fn.arg)]
    /\ UNCHANGED pipelineVars

SoupNext == CallParseSoup

SoupSpec == SoupInit /\ [][SoupNext]_vars

\* the characters of the raw texts of the date and comment-count elements
FieldChars == {"0", "1", "3", ",", "d", " "}

\* the non-empty texts of at most MaxText characters (an xpath text() node
\* is never empty)
FieldTexts == UNION {[1..k -> FieldChars] : k \in 1..MaxText}

\* a post with a name and an actor link, and with either a date element or
\* a comment-count element of any text
FieldPosts ==
    {[post |-> TRUE, name |-> Some(<<"a">>), job |-> Null, date |-> d,
      desc |-> Null, url |-> Some(<<"u">>), comments |-> Null] :
        d \in {Null} \cup {Some(t) : t \in FieldTexts}}
    \cup
    {[post |-> TRUE, name |-> Some(<<"a">>), job |-> Null, date |-> Null,
      desc |-> Null, url |-> Some(<<"u">>), comments |-> c] :
        c \in {Some(t) : t \in FieldTexts}}

FieldInit ==
    /\ PipelineIdle
    /\ fn \in {Call("parse_html_soup", <<p>>) : p \in FieldPosts}

FieldSpec == FieldInit /\ [][SoupNext]_vars

\* the characters of the text and tail segments of a description
SegChars == {"a", "b", " "}

SegTexts == UNION {[1..k -> SegChars] : k \in 0..MaxSeg}

Kid(el, tail) == [el |-> el, tail |-> tail]

\* description subtrees: an element with one child and its tail; one with
\* two children; one whose child has a child of its own, both with tails
OneChild(t, a, x) == [text |-> t, kids |-> <<Kid(Leaf(a), x)>>]

TwoChildren(t, a, x, b) == [text |-> t, kids |-> <<Kid(Leaf(a), x), Kid(Leaf(b), <<>>)>>]

Nested(t, a, x, y) == [text |-> <<>>, kids |-> <<Kid(OneChild(t, a, x), y)>>]

TextInit ==
    /\ PipelineIdle
    /\ \/ \E t \in SegTexts : fn = Call("get_inner_text", Leaf(t))
       \/ \E t \in SegTexts, a \in SegTexts, x \in SegTexts :
              fn = Call("get_inner_text", OneChild(t, a, x))
       \/ \E t \in SegTexts, a \in SegTexts, x \in SegTexts, b \in SegTexts :
              fn = Call("get_inner_text", TwoChildren(t, a, x, b))
       \/ \E t \in SegTexts, a \in SegTexts, x \in SegTexts, y \in SegTexts :
              fn = Call("get_inner_text", Nested(t, a, x, y))

\* main.py:105: description = get_inner_text(description_element)
CallGetInnerText ==
    /\ fn.op = "get_inner_text"
    /\ ~fn.done
    /\ fn' = [fn EXCEPT !.done = TRUE, !.res = get_inner_text(fn.arg)]
    /\ UNCHANGED pipelineVars

TextNext == CallGetInnerText

TextSpec == TextInit /\ [][TextNext]_vars

\* ---- definitions used by the properties -----------------------------------
AllSucceed == \A d \in Producers : docs[d].kind = "ok"

SomeFails == \E d \in Producers : docs[d].kind # "ok"

ParseFolderEnded == pfPc \in {"returned", "raised"}

\* the rows of the output after the first
DataRows == SubSeq(output, 2, Len(output))

\* how many rows of the output are row r
Count(r) == Cardinality({k \in 1..Len(output) : output[k] = r})

RecordsOf(d) == {<<d, i>> : i \in 1..docs[d].n}

\* how many rows of document d the output holds
Written(d) == Cardinality({k \in 1..Len(output) : output[k] \in RecordsOf(d)})

RECURSIVE TotalRecords(_)
TotalRecords(k) == IF k = 0 THEN 0 ELSE docs[k].n + TotalRecords(k - 1)

\* header first, then every record of every document in S exactly once and nothing else
HoldsExactly(S) ==
    /\ output # <<>>
    /\ output[1] = HEADER
    /\ \A k \in 2..Len(output) : \E d \in S : output[k] \in RecordsOf(d)
    /\ \A d \in S : \A r \in RecordsOf(d) : Count(r) = 1

SentinelLast(log) == \A k \in 1..Len(log) : log[k] = SENTINEL => k = Len(log)

\* ---- properties ------------------------------------------------------------

\* C1: when every parse task succeeded and parse_folder has returned, the
\* output is the header row followed by every record of every document
\* exactly once, whatever the interleaving of producers and consumer was.
C1_ExactlyOnce ==
    (pfPc = "returned" /\ AllSucceed) =>
        /\ HoldsExactly(Producers)
        /\ Len(output) = 1 + TotalRecords(Len(docs))

\* three documents of 2, 0 and 2 records, the last one finishing first
C1_Witness ==
    /\ pfPc = "returned"
    /\ Len(docs) = 3
    /\ AllSucceed
    /\ docs[1].n = 2 /\ docs[2].n = 0 /\ docs[3].n = 2
    /\ putLog[1] = BatchItem(3)
    /\ Len(output) = 5

\* C2: a run with a failing document still ends by parse_folder returning,
\* with the sentinel put, the consumer finished, the sink closed, no row of
\* the failing documents and every record of the other documents written.
C2_FailureTolerated ==
    (ParseFolderEnded /\ isDir /\ SomeFails) =>
        /\ pfPc = "returned"
        /\ \E k \in 1..Len(putLog) : putLog[k] = SENTINEL
        /\ consPc = "done"
        /\ ~fileOpen
        /\ HoldsExactly({d \in Producers : docs[d].kind = "ok"})

\* C3: the output never holds more than one header row, the header is its
\* first row, and it is there before the consumer exists to accept a batch.
C3_HeaderOnceFirst ==
    /\ Count(HEADER) <= 1
    /\ output # <<>> => output[1] = HEADER
    /\ consPc # "none" => (output # <<>> /\ output[1] = HEADER)

\* rows were accepted and the sink was closed after the header was written
C3_Witness ==
    /\ genPc = "finished"
    /\ consPc = "done"
    /\ Len(takeLog) >= 3
    /\ Len(output) >= 3
    /\ Count(HEADER) = 1

\* C4: at most one task is inside a sink operation; parse_folder is inside
\* only while it opens the sink, before the consumer task exists; afterwards
\* only the consumer is, and never a producer; an accept or a close in
\* progress belongs to the consumer's single current send.
C4_SingleWriter ==
    /\ Cardinality(sinkUser) <= 1
    /\ sinkUser \subseteq {MainTask, ConsumerTask}
    /\ MainTask \in sinkUser => (consPc = "none" /\ genPc = "header")
    /\ (genPc = "rows" /\ loopState = "running") => (sinkUser = {ConsumerTask} /\ consPc = "send")
    /\ (genPc = "exit" /\ loopState = "running") => (sinkUser = {ConsumerTask} /\ consPc = "close")
    /\ ConsumerTask \in sinkUser => genPc \in {"rows", "exit"}

\* the consumer is inside an accept while a producer is still running and
\* another batch is waiting in the queue
C4_Witness ==
    /\ sinkUser = {ConsumerTask}
    /\ genPc = "rows"
    /\ pos = 1
    /\ queue # <<>>
    /\ \E d \in Producers : prodPc[d] = "parse"

\* C5: the sentinel is put at most once, nothing is put after it, it is the
\* last item the consumer takes, and it is never the batch being written.
C5_SentinelLast ==
    /\ Cardinality({k \in 1..Len(putLog) : putLog[k] = SENTINEL}) <= 1
    /\ SentinelLast(putLog)
    /\ SentinelLast(queue)
    /\ SentinelLast(takeLog)
    /\ (takeLog # <<>> /\ takeLog[Len(takeLog)] = SENTINEL) =>
           (consPc \in {"close", "done", "cancelled"} /\ genPc \in {"exit", "finished"})
    /\ genPc = "rows" => (takeLog # <<>> /\ takeLog[Len(takeLog)] # SENTINEL)

\* the consumer took two batches and then the sentinel
C5_Witness ==
    /\ Len(takeLog) = 3
    /\ takeLog[3] = SENTINEL
    /\ takeLog[1].rows # <<>>
    /\ consPc = "done"

\* C6: when the path is a directory and every document parses, the run
\* eventually has the sink closed, the consumer finished and parse_folder
\* returned.
C6_EventuallyClosed ==
    (isDir /\ AllSucceed) ~>
        (pfPc = "returned" /\ consPc = "done" /\ genPc = "finished" /\ ~fileOpen)

\* parse_folder returned after the consumer closed the sink on the sentinel
C6_Witness ==
    /\ pfPc = "returned"
    /\ consPc = "done"
    /\ genPc = "finished"
    /\ ~fileOpen
    /\ Len(docs) = 3
    /\ queue = <<>>

\* C7: whenever parse_folder has ended after opening the sink, the
\* destination is closed and the consumer has finished on the sentinel.
C7_ReleasedAtEnd ==
    (ParseFolderEnded /\ genPc # "none") =>
        /\ ~fileOpen
        /\ consPc = "done"
        /\ takeLog # <<>>
        /\ takeLog[Len(takeLog)] = SENTINEL

\* C8: parse_folder ends either returned, with the header and the rows of
\* the documents that parsed, or raised with an empty output.
C8_CompleteOrNothing ==
    ParseFolderEnded =>
        \/ pfPc = "returned" /\ HoldsExactly({d \in Producers : docs[d].kind = "ok"})
        \/ pfPc = "raised" /\ output = <<>>

\* C9: the data rows are at every moment a prefix of the concatenation of
\* the batches in put order, and the whole of it once parse_folder returned.
C9_PutOrder ==
    /\ Len(DataRows) <= Len(Concat(putLog))
    /\ DataRows = SubSeq(Concat(putLog), 1, Len(DataRows))
    /\ pfPc = "returned" => DataRows = Concat(putLog)

\* two non-empty batches, put in the opposite of the directory order
C9_Witness ==
    /\ pfPc = "returned"
    /\ Len(docs) >= 2
    /\ docs[1].n = 2
    /\ docs[2].n = 2
    /\ putLog[1] = BatchItem(2)
    /\ putLog[2] = BatchItem(1)
    /\ DataRows = Batch(2) \o Batch(1)

\* C10: once the run has ended, every document has all of its records in
\* the output or none of them.
C10_AllOrNothing ==
    loopState = "closed" =>
        \A d \in Producers : Written(d) \in {0, docs[d].n}

\* the phase of the run that parse_folder is in: 0 INIT, 1 VALIDATED,
\* 2 RUNNING, 3 DRAINING, 4 CLOSED
Phase(pc) ==
    CASE pc = "start" -> 0
      [] pc \in {"validated", "selected", "opening", "opened"} -> 1
      [] pc = "gather" -> 2
      [] pc = "awaitConsumer" -> 3
      [] pc = "returned" -> 4
      [] OTHER -> 5

\* C13: every step keeps the phase or moves it to the next one (a run that
\* raised stays where it is); the header is written before a producer has
\* started or a batch was put; the sentinel is put only when every producer
\* has finished; parse_folder has returned only when the consumer is done.
C13_PhaseOrder ==
    [][/\ (pfPc # "raised" /\ pfPc' # "raised") =>
              Phase(pfPc') \in {Phase(pfPc), Phase(pfPc) + 1}
       /\ pfPc = "raised" => pfPc' = "raised"
       /\ ((\E d \in Producers : prodPc'[d] # "created") \/ putLog' # <<>>) =>
              (output' # <<>> /\ output'[1] = HEADER)
       /\ (\E k \in 1..Len(putLog') : putLog'[k] = SENTINEL) =>
              (\A d \in Producers : prodPc'[d] = "done")
       /\ pfPc' = "returned" => consPc' = "done"]_vars

\* a run of two documents went through every phase
C13_Witness ==
    /\ pfPc = "returned"
    /\ Len(docs) = 2
    /\ docs[1].n = 1
    /\ Len(takeLog) = 3

\* C14: when the path is not a directory, the only thing parse_folder does
\* is raise: no output file is selected or created, no queue item, no
\* generator, no producer and no consumer ever exists.
C14_NotDirNoEffect ==
    [][~isDir =>
          /\ pfPc' \in {pfPc, "raised"}
          /\ UNCHANGED <<fsFiles, outFile, queue, genPc, fileOpen, output,
                         prodPc, consPc, putLog, takeLog>>]_vars

\* parse_folder raised on a path that is not a directory
C14_Witness ==
    /\ ~isDir
    /\ pfPc = "raised"
    /\ outFile = NoFile
    /\ output = <<>>

SentinelPut == \E k \in 1..Len(putLog) : putLog[k] = SENTINEL

SentinelTaken == takeLog # <<>> /\ takeLog[Len(takeLog)] = SENTINEL

\* C19: when every document parses and the consumer task has died on a write
\* error, the run still gets every producer finished with its batch on the
\* queue, the sentinel put, and parse_folder raising from its await of the
\* consumer task.
C19_SinkErrorSurfaces ==
    (AllSucceed /\ consPc = "failed") ~>
        /\ pfPc = "raised"
        /\ \A d \in Producers : prodPc[d] = "done"
        /\ Len(putLog) = Len(docs) + 1
        /\ SentinelPut

\* the consumer died while two producers had not put their batch yet, and
\* parse_folder raised after they did
C19_Witness ==
    /\ consPc = "failed"
    /\ sinkRaised = "OSError"
    /\ pfPc = "raised"
    /\ Len(docs) = 3
    /\ Len(takeLog) = 1
    /\ Len(queue) = 3
    /\ putLog[2] # SENTINEL
    /\ SentinelPut

\* C20: once the consumer has taken the sentinel and left the close, it has
\* returned normally although the asend raised, and parse_folder does not
\* raise: it is awaiting the consumer or has returned.
C20_FinalizeSwallowed ==
    /\ (SentinelTaken /\ consPc # "close") =>
           (consPc = "done" /\ sinkRaised \in {"RuntimeError", "OSError"})
    /\ SentinelTaken => pfPc \in {"awaitConsumer", "returned"}
    /\ (SentinelTaken /\ loopState = "closed") => pfPc = "returned"

\* closing the destination failed and parse_folder returned all the same
C20_Witness ==
    /\ SentinelTaken
    /\ sinkRaised = "OSError"
    /\ consPc = "done"
    /\ pfPc = "returned"
    /\ Len(output) >= 2

\* C11: when the consumer handles a sentinel on a generator that has already
\* finished, it returns normally and the output, the destination handle and
\* the generator stay as they were.
C11_SecondFinalize ==
    [][(genPc = "finished" /\ queue # <<>> /\ Head(queue) = SENTINEL /\ takeLog' # takeLog) =>
          /\ consPc' = "done"
          /\ output' = output
          /\ fileOpen' = fileOpen
          /\ genPc' = "finished"]_vars

\* two rows were written, the sink was finalized, and finalized again
C11_Witness ==
    /\ Len(takeLog) = 3
    /\ takeLog[2] = SENTINEL
    /\ takeLog[3] = SENTINEL
    /\ consPc = "done"
    /\ sinkRaised = "StopAsyncIteration"
    /\ Len(output) = 3
    /\ ~fileOpen

HasName(node) == node.name # Null

\* a post with a name element and none of the other elements
NameOnly(node) ==
    /\ node.post
    /\ node.name # Null
    /\ node.job = Null /\ node.date = Null /\ node.desc = Null
    /\ node.url = Null /\ node.comments = Null

NameOnlyRow(node) ==
    [full_name |-> node.name, job_title |-> Null, company |-> Null, email |-> Null,
     description |-> Null, date |-> Null, number_of_comments |-> Null, url |-> Null]

SoupDone == fn.op = "parse_html_soup" /\ fn.done

\* C12: for a document whose posts all have the name element and no other,
\* parse_html_soup does not raise and returns, per post, the record with
\* full_name set and every other field null.
C12_NameOnlyRecord ==
    (SoupDone /\ fn.arg # <<>> /\ \A i \in 1..Len(fn.arg) : NameOnly(fn.arg[i])) =>
        /\ fn.res.exc = "none"
        /\ fn.res.val = [i \in 1..Len(fn.arg) |-> NameOnlyRow(fn.arg[i])]

\* C15: parse_html_soup returns one record per post that has a name
\* element, in the order of those posts.
C15_OneRecordPerNamedPost ==
    SoupDone =>
        LET named == SelectSeq(get_posts_trees(fn.arg), HasName)
        IN  /\ fn.res.exc = "none"
            /\ Len(fn.res.val) = Len(named)
            /\ \A i \in 1..Len(named) : fn.res.val[i].full_name = named[i].name

\* the text without its spaces
NotSpace(c) == ~IsSpace(c)

Squeeze(s) == SelectSeq(s, NotSpace)

\* a token of one or two digits followed by one or two letters that starts
\* at position i of s: its length, 0 when there is none
TokenAt(s, i) ==
    LET D(j) == j <= Len(s) /\ IsDigit(s[j])
        L(j) == j <= Len(s) /\ IsLetter(s[j])
    IN  IF ~D(i) THEN 0
        ELSE IF L(i + 1) THEN (IF L(i + 2) THEN 3 ELSE 2)
        ELSE IF D(i + 1) /\ L(i + 2) THEN (IF L(i + 3) THEN 4 ELSE 3)
        ELSE 0

FirstToken(s) ==
    LET starts == {i \in 1..Len(s) : TokenAt(s, i) > 0}
    IN  IF starts = {} THEN Null
        ELSE LET i == CHOOSE k \in starts : \A j \in starts : k <= j
             IN  Some(SubSeq(s, i, i + TokenAt(s, i) - 1))

FieldDone == fn.op = "parse_html_soup" /\ fn.done /\ Len(fn.arg) = 1

\* C16: when the date element is present and its text holds a token of one
\* or two digits followed by one or two letters (read without the spaces,
\* as in "3 d" giving "3d"), the date field is the first such token.
C16_DateToken ==
    (FieldDone /\ fn.arg[1].date # Null /\ FirstToken(Squeeze(fn.arg[1].date[1])) # Null) =>
        /\ fn.res.exc = "none"
        /\ fn.res.val[1].date = FirstToken(Squeeze(fn.arg[1].date[1]))

InRun(c) == IsDigit(c) \/ c = ","

\* the longest prefix of s made of digits and commas
RECURSIVE LeadingRun(_)
LeadingRun(s) ==
    IF s # <<>> /\ InRun(Head(s)) THEN <<Head(s)>> \o LeadingRun(Tail(s)) ELSE <<>>

RECURSIVE Pow10(_)
Pow10(k) == IF k = 0 THEN 1 ELSE 10 * Pow10(k - 1)

RECURSIVE DecimalSum(_, _)
DecimalSum(digits, i) ==
    IF i > Len(digits) THEN 0
    ELSE DigitValue(digits[i]) * Pow10(Len(digits) - i) + DecimalSum(digits, i + 1)

\* the number that the digits of s spell
Decimal(s) == DecimalSum(SelectSeq(s, IsDigit), 1)

HasDigit(s) == \E i \in 1..Len(s) : IsDigit(s[i])

\* C18 as stated: an absent element gives null; a present element gives the
\* integer spelled by the leading run of digits and commas of its text.
C18_LeadingRunCount ==
    FieldDone =>
        IF fn.arg[1].comments = Null
        THEN fn.res.exc = "none" => fn.res.val[1].number_of_comments = Null
        ELSE /\ fn.res.exc = "none"
             /\ HasDigit(LeadingRun(fn.arg[1].comments[1]))
             /\ fn.res.val[1].number_of_comments =
                    Some(Decimal(LeadingRun(fn.arg[1].comments[1])))

\* the leftmost maximal run of digits and commas of s, wherever it starts
FirstRun(s) ==
    LET S == {i \in 1..Len(s) : InRun(s[i])}
    IN  IF S = {} THEN <<>>
        ELSE LET i == CHOOSE k \in S : \A j \in S : k <= j
                 E == {k \in i..Len(s) : \A m \in i..k : InRun(s[m])}
                 j == CHOOSE k \in E : \A m \in E : m <= k
             IN  SubSeq(s, i, j)

\* C18 (amended): an absent element gives null, never 0.  A present element
\* gives the integer spelled by the first run of digits and commas found
\* anywhere in its text; a text without such a run raises AttributeError and
\* a run of commas only raises ValueError.
C18_FirstRunCount ==
    FieldDone =>
        IF fn.arg[1].comments = Null
        THEN fn.res.exc = "none" =>
                 (fn.res.val[1].number_of_comments = Null
                  /\ fn.res.val[1].number_of_comments # Some(0))
        ELSE LET run == FirstRun(fn.arg[1].comments[1])
             IN  IF run = <<>> THEN fn.res.exc = "AttributeError"
                 ELSE IF ~HasDigit(run) THEN fn.res.exc = "ValueError"
                 ELSE /\ fn.res.exc = "none"
                      /\ fn.res.val[1].number_of_comments = Some(Decimal(run))
                      /\ Decimal(run) >= 0

\* the text "1,3" gives 13
C18_Witness ==
    /\ FieldDone
    /\ fn.arg[1].comments = Some(<<"1", ",", "3">>)
    /\ fn.res.exc = "none"
    /\ fn.res.val[1].number_of_comments = Some(13)

\* the text and tail segments of an element in document order: its text,
\* then for each child the child's segments and the child's tail
RECURSIVE SegList(_)
RECURSIVE KidsSegList(_)
KidsSegList(kids) ==
    IF kids = <<>> THEN <<>>
    ELSE SegList(Head(kids).el) \o <<Head(kids).tail>> \o KidsSegList(Tail(kids))

SegList(element) == <<element.text>> \o KidsSegList(element.kids)

RECURSIVE Flatten(_)
Flatten(segs) == IF segs = <<>> THEN <<>> ELSE Head(segs) \o Flatten(Tail(segs))

RECURSIVE JoinSpace(_)
JoinSpace(segs) ==
    IF segs = <<>> THEN <<>>
    ELSE IF Len(segs) = 1 THEN Head(segs)
    ELSE Head(segs) \o <<" ">> \o JoinSpace(Tail(segs))

TextDone == fn.op = "get_inner_text" /\ fn.done

\* C17 as stated: the result is the concatenation of the segments in
\* document order, trimmed at its two ends and not otherwise changed.
C17_PlainConcatenation ==
    TextDone => fn.res = Strip(Flatten(SegList(fn.arg)))

\* C17 (amended): the result holds the characters of all segments in
\* document order and differs from their concatenation in whitespace only;
\* it has no leading or trailing whitespace; and when every segment is
\* non-empty and free of whitespace it is the segments joined by one space.
C17_SpaceJoined ==
    TextDone =>
        LET segs == SegList(fn.arg)
        IN  /\ Squeeze(fn.res) = Squeeze(Flatten(segs))
            /\ fn.res # <<>> => (~IsSpace(fn.res[1]) /\ ~IsSpace(fn.res[Len(fn.res)]))
            /\ (\A i \in 1..Len(segs) : segs[i] # <<>> /\ Squeeze(segs[i]) = segs[i]) =>
                   fn.res = JoinSpace(segs)

\* an inline child with a child of its own, both followed by tail text
C17_Witness ==
    /\ TextDone
    /\ fn.arg = [text |-> <<>>,
                 kids |-> <<Kid([text |-> <<"a">>, kids |-> <<Kid(Leaf(<<"b">>), <<"a">>)>>],
                                <<"b">>)>>]
    /\ fn.res = <<"a", " ", "b", " ", "a", " ", "b">>

====
